---------------------------- MODULE Spec2Model ----------------------------
(* A model of the sprite container decoder and renderer of src/lib.rs:     *)
(* the primitive readers, Header::new, Frame::new, Chunk::new and its      *)
(* variant decoders, Cel::new, Pixel::new_pixels, Ase::new and Ase::render.*)
(* A Rust slice &raw[a..b] is a pair of absolute offsets (lo, hi) into the *)
(* input buffer; every indexing the code performs is bounds-checked here   *)
(* as the Rust runtime checks it, and a failed check is a panic.           *)
EXTENDS Integers, Sequences, FiniteSets, TLC

VARIABLES raw, input, pc, err, header, frames, offset, frame, foffset,
          chunk_count, k, chunk, calls, image_data,
          bytes, word, dword,
          celin, rawcel, compcel, decoded_cel

vars == <<raw, input, pc, err, header, frames, offset, frame, foffset,
          chunk_count, k, chunk, calls, image_data,
          bytes, word, dword, celin, rawcel, compcel, decoded_cel>>

decodeVars == <<raw, input, pc, err, header, frames, offset, frame, foffset,
                chunk_count, k, chunk, calls, image_data>>
readerVars == <<bytes, word, dword>>
celVars == <<celin, rawcel, compcel, decoded_cel>>

-----------------------------------------------------------------------------
(* Program constants.                                                      *)
HEADER_SIZE == 128
FRAME_HEADER_SIZE == 16

(* Bounds of the model.                                                    *)
MaxFrames == 2
MaxChunks == 3
MaxCelSide == 2
CanvasW == 4
CanvasH == 3

Nil == [nil |-> TRUE]

Pow2(n) == 2 ^ n
U16 == Pow2(16)

-----------------------------------------------------------------------------
(* Primitive readers (lib.rs 643-676). b is the buffer, o a 0-based        *)
(* offset into it. A left shift in a w-bit type drops the bits shifted     *)
(* out; the additions are w-bit additions, which overflow (a panic in a    *)
(* debug build, a wrap in a release build) when the exact sum needs more   *)
(* than w bits. A 32-bit value is kept as its two 16-bit halves (hi, lo),  *)
(* with ovf telling whether an addition overflowed 32 bits.                *)
Shl(v, n, w) == (v * Pow2(n)) % Pow2(w)

WordSum(b, o) == Shl(b[o + 1], 0, 16) + Shl(b[o + 2], 8, 16)

read_word(b, o) == WordSum(b, o) % U16

Shl32(v, n) ==
    IF n < 16
       THEN [hi |-> ((v * Pow2(n)) \div U16) % U16, lo |-> (v * Pow2(n)) % U16,
             ovf |-> FALSE]
    ELSE [hi |-> (v * Pow2(n - 16)) % U16, lo |-> 0, ovf |-> FALSE]

Add32(x, y) ==
    LET lo == x.lo + y.lo
        hi == x.hi + y.hi + (lo \div U16)
    IN  [hi |-> hi % U16, lo |-> lo % U16, ovf |-> x.ovf \/ y.ovf \/ hi >= U16]

(* read_dword with its operands widened to 16 bits only.                   *)
DwordSumNarrow(b, o) ==
    Add32(Add32(Add32(Shl32(b[o + 1], 0), Shl32(b[o + 2], 8)),
                [hi |-> 0, lo |-> Shl(b[o + 3], 16, 16), ovf |-> FALSE]),
          [hi |-> 0, lo |-> Shl(b[o + 4], 24, 16), ovf |-> FALSE])

DwordSum(b, o) ==
    Add32(Add32(Add32(Shl32(b[o + 1], 0), Shl32(b[o + 2], 8)),
                Shl32(b[o + 3], 16)),
          Shl32(b[o + 4], 24))

(* The u32 as one integer; the sizes and counts of the modelled inputs     *)
(* are all below 2^31.                                                     *)
read_dword(b, o) == LET s == DwordSum(b, o) IN s.hi * U16 + s.lo

(* i16 / i32: the same bit pattern read as two's complement; the shifted   *)
(* operands never overflow the signed sum.                                 *)
ToSigned(v, w) == IF v >= Pow2(w - 1) THEN v - Pow2(w) ELSE v

read_short(b, o) == ToSigned(read_word(b, o), 16)

read_long(b, o) == LET s == DwordSum(b, o) IN ToSigned(s.hi, 16) * U16 + s.lo

(* Fixed::from_bits: the value is kept as its raw bits.                    *)
read_fixed(b, o) == read_long(b, o)

(* n bytes can be read at offset lo of a slice that ends at hi.            *)
Avail(lo, hi, n) == lo >= 0 /\ lo + n <= hi

(* read_string on the slice (lo, hi): ok, the text bytes, bytes consumed.  *)
(* The modelled inputs carry ASCII names only, so from_utf8_unchecked is   *)
(* always applied to valid text.                                           *)
read_string(b, lo, hi) ==
    IF ~Avail(lo, hi, 2) THEN [ok |-> FALSE]
    ELSE LET length == read_word(b, lo)
         IN  IF ~Avail(lo + 2, hi, length) THEN [ok |-> FALSE]
             ELSE [ok |-> TRUE,
                   text |-> SubSeq(b, lo + 3, lo + 2 + length),
                   used |-> length + 2]

-----------------------------------------------------------------------------
(* ColorDepth (lib.rs 420-452).                                            *)
ColorDepthOk(w) == w \in {32, 16, 8}

ColorDepthFrom(w) ==
    CASE w = 32 -> "RGBA"
      [] w = 16 -> "GrayScale"
      [] w = 8  -> "Indexed"

DepthOffset(d) ==
    CASE d = "RGBA" -> 4
      [] d = "GrayScale" -> 2
      [] d = "Indexed" -> 1

(* Header::new (lib.rs 623-640). The fields are read in order, each read a *)
(* bounds-checked indexing; the first failing one panics.                  *)
HeaderNew(b) ==
    IF Len(b) < 14 THEN [ok |-> FALSE, why |-> "index out of bounds"]
    ELSE IF ~ColorDepthOk(read_word(b, 12))
         THEN [ok |-> FALSE, why |-> "Invalid color depth!"]
    ELSE IF Len(b) < 32 THEN [ok |-> FALSE, why |-> "index out of bounds"]
    ELSE [ok |-> TRUE,
          file_size |-> read_dword(b, 0),
          magic_number |-> read_word(b, 4),
          frames |-> read_word(b, 6),
          width |-> read_word(b, 8),
          height |-> read_word(b, 10),
          color_depth |-> ColorDepthFrom(read_word(b, 12)),
          flags |-> read_dword(b, 14),
          speed |-> read_word(b, 18),
          pallette_entry |-> b[25],
          number_of_colors |-> read_word(b, 28),
          pixel_width |-> b[31],
          pixel_height |-> b[32]]

-----------------------------------------------------------------------------
(* Pixel::new_pixels (lib.rs 508-523): count pixels of DepthOffset bytes   *)
(* each, read from the slice (lo, hi). A pixel is the tuple of its channel *)
(* bytes. The dimensions of the modelled inputs stay far below 2^16, so    *)
(* the u16 product width * height is exact.                                *)
PixelAt(d, b, o) == SubSeq(b, o + 1, o + DepthOffset(d))

new_pixels(d, width, height, b, lo, hi) ==
    LET count == width * height
        bpp == DepthOffset(d)
    IN  IF lo > hi THEN [ok |-> FALSE]
        ELSE IF count > 0 /\ ~Avail(lo + (count - 1) * bpp, hi, bpp)
             THEN [ok |-> FALSE]
        ELSE [ok |-> TRUE,
              pixels |-> [i \in 1..count |-> PixelAt(d, b, lo + (i - 1) * bpp)]]

-----------------------------------------------------------------------------
(* ZlibDecoder::read_to_end (lib.rs 294). The decoder is modelled on the   *)
(* zlib streams the inputs carry: a 2-byte zlib header, one final stored   *)
(* deflate block (LEN, NLEN, the bytes) and the big-endian Adler-32 of the *)
(* bytes. Anything else is a decode error, which unwrap() turns into a     *)
(* panic.                                                                  *)
ADLER_MOD == 65521

RECURSIVE AdlerA(_, _)
AdlerA(s, n) == IF n = 0 THEN 1 ELSE (AdlerA(s, n - 1) + s[n]) % ADLER_MOD

RECURSIVE AdlerB(_, _)
AdlerB(s, n) == IF n = 0 THEN 0 ELSE (AdlerB(s, n - 1) + AdlerA(s, n)) % ADLER_MOD

(* The checksum as its two 16-bit halves.                                  *)
Adler32(s) == [hi |-> AdlerB(s, Len(s)), lo |-> AdlerA(s, Len(s))]

BE32(b, o) == [hi |-> b[o + 1] * 256 + b[o + 2], lo |-> b[o + 3] * 256 + b[o + 4]]

Inflate(b, lo, hi) ==
    IF ~Avail(lo, hi, 7) THEN [ok |-> FALSE]
    ELSE LET cmf == b[lo + 1]
             flg == b[lo + 2]
             blk == b[lo + 3]
             len == read_word(b, lo + 3)
             nlen == read_word(b, lo + 5)
         IN  IF cmf % 16 # 8 \/ (cmf * 256 + flg) % 31 # 0 \/ (flg \div 32) % 2 = 1
                THEN [ok |-> FALSE]
             ELSE IF blk # 1 \/ len + nlen # U16 - 1 THEN [ok |-> FALSE]
             ELSE IF ~Avail(lo + 7, hi, len + 4) THEN [ok |-> FALSE]
             ELSE LET data == SubSeq(b, lo + 8, lo + 7 + len)
                  IN  IF Adler32(data) # BE32(b, lo + 7 + len) THEN [ok |-> FALSE]
                      ELSE [ok |-> TRUE, data |-> data]

-----------------------------------------------------------------------------
(* CelBase::new (lib.rs 252-265) on the slice (lo, hi); the caller has     *)
(* checked that its 7 bytes are there.                                     *)
CelBaseNew(b, lo) ==
    [layer_index |-> read_word(b, lo),
     x |-> read_short(b, lo + 2),
     y |-> read_short(b, lo + 4),
     opacity |-> b[lo + 7]]

CelBaseOffset == 7

(* RawCel::new (lib.rs 276-287).                                           *)
RawCelNew(d, b, lo, hi) ==
    LET off == CelBaseOffset + 9
    IN  IF ~Avail(lo + off, hi, 4) THEN [ok |-> FALSE, why |-> "index out of bounds"]
        ELSE LET width == read_word(b, lo + off) + 1
                 height == read_word(b, lo + off + 2) + 1
                 px == new_pixels(d, width, height, b, lo + off + 4, hi)
             IN  IF ~px.ok THEN [ok |-> FALSE, why |-> "index out of bounds"]
                 ELSE [ok |-> TRUE,
                       cel |-> [kind |-> "Raw", base |-> CelBaseNew(b, lo),
                                width |-> width, height |-> height,
                                pixels |-> px.pixels]]

(* RawCel::from_compressed (lib.rs 289-302).                               *)
RawCelFromCompressed(d, b, lo, hi) ==
    LET off == CelBaseOffset + 9
    IN  IF ~Avail(lo + off, hi, 4) THEN [ok |-> FALSE, why |-> "index out of bounds"]
        ELSE LET width == read_word(b, lo + off)
                 height == read_word(b, lo + off + 2)
                 z == Inflate(b, lo + off + 4, hi)
             IN  IF ~z.ok THEN [ok |-> FALSE, why |-> "unwrap on Err"]
                 ELSE LET px == new_pixels(d, width, height, z.data, 0, Len(z.data))
                      IN  IF ~px.ok THEN [ok |-> FALSE, why |-> "index out of bounds"]
                          ELSE [ok |-> TRUE,
                                cel |-> [kind |-> "Raw", base |-> CelBaseNew(b, lo),
                                         width |-> width, height |-> height,
                                         pixels |-> px.pixels]]

(* LinkedCel::new (lib.rs 320-326).                                        *)
LinkedCelNew(b, lo, hi) ==
    [ok |-> TRUE,
     cel |-> [kind |-> "Linked", base |-> CelBaseNew(b, lo),
              frame_position |-> read_word(b, lo + CelBaseOffset)]]

(* Cel::new (lib.rs 399-409) on the slice (lo, hi).                        *)
CelNew(hdr, b, lo, hi) ==
    IF ~Avail(lo + 7, hi, 2) THEN [ok |-> FALSE, why |-> "index out of bounds"]
    ELSE LET cel_type == read_word(b, lo + 7)
         IN  CASE cel_type = 0 -> RawCelNew(hdr.color_depth, b, lo, hi)
               [] cel_type = 1 -> LinkedCelNew(b, lo, hi)
               [] cel_type = 2 -> RawCelFromCompressed(hdr.color_depth, b, lo, hi)
               [] OTHER -> [ok |-> FALSE, why |-> "Invalid cel type!"]

(* Cel::layer_index (lib.rs 411-417).                                      *)
layer_index(cel) == cel.base.layer_index

-----------------------------------------------------------------------------
(* The variant decoders of Chunk (lib.rs 144-221), each on the payload     *)
(* slice (lo, hi) = &raw[6..] of the chunk.                                *)
new_layer(b, lo, hi) ==
    LET nm == IF lo + 16 <= hi THEN read_string(b, lo + 16, hi) ELSE [ok |-> FALSE]
    IN  IF ~nm.ok THEN [ok |-> FALSE, why |-> "index out of bounds"]
        ELSE IF read_word(b, lo + 2) > 1 THEN [ok |-> FALSE, why |-> "Invalid layer type!"]
        ELSE [ok |-> TRUE,
              chunk |-> [tag |-> "Layer",
                         flags |-> read_word(b, lo),
                         layer_type |-> IF read_word(b, lo + 2) = 0 THEN "Normal" ELSE "Group",
                         child_level |-> read_word(b, lo + 4),
                         default_width |-> read_word(b, lo + 6),
                         default_height |-> read_word(b, lo + 8),
                         blend_mode |-> read_word(b, lo + 10),
                         opacity |-> b[lo + 13],
                         name |-> nm.text,
                         cels |-> <<>>]]

new_color_profile(b, lo, hi) ==
    IF ~Avail(lo, hi, 8) THEN [ok |-> FALSE, why |-> "index out of bounds"]
    ELSE [ok |-> TRUE,
          chunk |-> [tag |-> "ColorProfile",
                     profile_type |-> read_word(b, lo),
                     flags |-> read_word(b, lo + 2),
                     gamma |-> read_fixed(b, lo + 4),
                     icc_size |-> 0,
                     icc_data |-> <<>>]]

(* The u16 product height * ((width + 7) / 8) is exact for the mask sizes  *)
(* an input of the model can carry.                                        *)
new_mask(b, lo, hi) ==
    IF ~Avail(lo, hi, 8) THEN [ok |-> FALSE, why |-> "index out of bounds"]
    ELSE LET width == read_word(b, lo + 4)
             height == read_word(b, lo + 6)
             nm == read_string(b, lo + 8, hi)
         IN  IF ~nm.ok THEN [ok |-> FALSE, why |-> "index out of bounds"]
             ELSE LET data_size == height * ((width + 7) \div 8)
                      from == lo + 10 + nm.used
                  IN  IF ~Avail(from, hi, data_size)
                         THEN [ok |-> FALSE, why |-> "index out of bounds"]
                      ELSE [ok |-> TRUE,
                            chunk |-> [tag |-> "Mask",
                                       x |-> read_short(b, lo),
                                       y |-> read_short(b, lo + 2),
                                       width |-> width,
                                       height |-> height,
                                       mask_name |-> nm.text,
                                       data |-> SubSeq(b, from + 1, from + data_size)]]

new_cel(hdr, b, lo, hi) ==
    LET c == CelNew(hdr, b, lo, hi)
    IN  IF ~c.ok THEN c
        ELSE [ok |-> TRUE, chunk |-> [tag |-> "Cel", cel |-> c.cel]]

new_cel_extra(b, lo, hi) ==
    IF ~Avail(lo, hi, 20) THEN [ok |-> FALSE, why |-> "index out of bounds"]
    ELSE [ok |-> TRUE,
          chunk |-> [tag |-> "CelExtra",
                     flags |-> read_dword(b, lo),
                     x |-> read_fixed(b, lo + 4),
                     y |-> read_fixed(b, lo + 8),
                     width |-> read_fixed(b, lo + 12),
                     height |-> read_fixed(b, lo + 16)]]

new_pallette(b, lo, hi) ==
    IF ~Avail(lo, hi, 12) THEN [ok |-> FALSE, why |-> "index out of bounds"]
    ELSE [ok |-> TRUE,
          chunk |-> [tag |-> "Pallette",
                     size |-> read_dword(b, lo),
                     first_color_index |-> read_dword(b, lo + 4),
                     last_color_index |-> read_dword(b, lo + 8),
                     entries |-> <<>>]]

new_slice(b, lo, hi) ==
    LET nm == IF lo + 8 <= hi THEN read_string(b, lo + 8, hi) ELSE [ok |-> FALSE]
    IN  IF ~nm.ok THEN [ok |-> FALSE, why |-> "index out of bounds"]
        ELSE [ok |-> TRUE,
              chunk |-> [tag |-> "Slice",
                         key_count |-> read_dword(b, lo),
                         flags |-> read_dword(b, lo + 4),
                         name |-> nm.text,
                         keys |-> <<>>]]

(* The dispatch of Chunk::new (lib.rs 227-240) for a chunk at (lo, hi)     *)
(* with the given type tag and declared size. Only the Cel payload is cut  *)
(* to the declared size; every other payload slice runs to the end of the  *)
(* buffer.                                                                 *)
ChunkVariant(hdr, b, lo, hi, chunk_type, size) ==
    CASE chunk_type = 4 -> [ok |-> TRUE, chunk |-> [tag |-> "OldPallette"]]
      [] chunk_type = 17 -> [ok |-> TRUE, chunk |-> [tag |-> "OtherOldPallette"]]
      [] chunk_type = 8196 -> new_layer(b, lo + 6, hi)
      [] chunk_type = 8197 ->
            IF size < 6 \/ lo + size > hi
               THEN [ok |-> FALSE, why |-> "index out of bounds"]
            ELSE new_cel(hdr, b, lo + 6, lo + size)
      [] chunk_type = 8198 -> new_cel_extra(b, lo + 6, hi)
      [] chunk_type = 8199 -> new_color_profile(b, lo + 6, hi)
      [] chunk_type = 8214 -> new_mask(b, lo + 6, hi)
      [] chunk_type = 8215 -> [ok |-> TRUE, chunk |-> [tag |-> "Path"]]
      [] chunk_type = 8216 -> [ok |-> TRUE, chunk |-> [tag |-> "FrameTags"]]
      [] chunk_type = 8217 -> new_pallette(b, lo + 6, hi)
      [] chunk_type = 8226 -> new_slice(b, lo + 6, hi)
      [] OTHER -> [ok |-> FALSE, why |-> "Invalid chunk type!"]

(* The bytes of a chunk its variant decoder looked at (the 6-byte chunk    *)
(* header included).                                                       *)
Inspected(c, size) ==
    CASE c.tag = "Layer" -> 6 + 16 + 2 + Len(c.name)
      [] c.tag = "Cel" -> size
      [] c.tag = "CelExtra" -> 6 + 20
      [] c.tag = "ColorProfile" -> 6 + 8
      [] c.tag = "Mask" -> 6 + 10 + 2 + Len(c.mask_name) + Len(c.data)
      [] c.tag = "Pallette" -> 6 + 12
      [] c.tag = "Slice" -> 6 + 8 + 2 + Len(c.name)
      [] OTHER -> 6

(* Chunk::new advancing by the bytes the variant decoder consumed instead  *)
(* of the declared size.                                                   *)
ChunkNewConsumed(hdr, b, lo, hi) ==
    IF ~Avail(lo, hi, 6) THEN [ok |-> FALSE, why |-> "index out of bounds"]
    ELSE LET size == read_dword(b, lo)
             v == ChunkVariant(hdr, b, lo, hi, read_word(b, lo + 4), size)
         IN  IF ~v.ok THEN v
             ELSE [ok |-> TRUE, chunk |-> v.chunk, size |-> Inspected(v.chunk, size)]

(* Chunk::new (lib.rs 223-241) on the slice (lo, hi): the decoded chunk    *)
(* and its declared size.                                                  *)
ChunkNew(hdr, b, lo, hi) ==
    IF ~Avail(lo, hi, 6) THEN [ok |-> FALSE, why |-> "index out of bounds"]
    ELSE LET size == read_dword(b, lo)
             v == ChunkVariant(hdr, b, lo, hi, read_word(b, lo + 4), size)
         IN  IF ~v.ok THEN v
             ELSE [ok |-> TRUE, chunk |-> v.chunk, size |-> size]

-----------------------------------------------------------------------------
(* The input files. A file is described by a record (its header fields,    *)
(* its frames, each frame's chunks) and laid out in bytes as the decoders  *)
(* above read them: the 128-byte header of Header::new, the 16-byte frame  *)
(* header of Frame::new, the 6-byte chunk header of Chunk::new and the     *)
(* payloads of the variant decoders.                                       *)
Magic == [header |-> 42464, frame |-> 61946]

LE16(n) == <<n % 256, (n \div 256) % 256>>

LE32(n) == LE16(n % U16) \o LE16(n \div U16)

LE16s(n) == LE16((n + U16) % U16)

BE32Bytes(n) == <<n.hi \div 256, n.hi % 256, n.lo \div 256, n.lo % 256>>

Zeros(n) == [i \in 1..n |-> 0]

(* n non-zero bytes that identify the cel they belong to.                  *)
PixelBytes(seed, n) == [i \in 1..n |-> ((seed + i - 1) % 255) + 1]

(* A zlib stream holding data in one stored block.                         *)
ZlibStored(data) ==
    <<120, 1, 1>> \o LE16(Len(data)) \o LE16(U16 - 1 - Len(data))
        \o data \o BE32Bytes(Adler32(data))

EncLayer(c) ==
    LE16(1) \o LE16(c.layer_type) \o LE16(0) \o LE16(0) \o LE16(0) \o LE16(0)
        \o <<255>> \o Zeros(3) \o LE16(Len(c.name)) \o c.name

EncCel(depth, c) ==
    LET px == PixelBytes(c.seed, c.w * c.h * (depth \div 8))
    IN  LE16(c.layer) \o LE16s(c.x) \o LE16s(c.y) \o <<255>> \o LE16(c.kind)
            \o Zeros(7)
            \o (CASE c.kind = 0 -> LE16(c.w) \o LE16(c.h) \o px
                  [] c.kind = 2 -> LE16(c.w) \o LE16(c.h) \o ZlibStored(px)
                  [] OTHER -> LE16(c.link))

(* The same cel with the 7 bytes placed before the cel-type word.          *)
EncCelReservedFirst(depth, c) ==
    LET px == PixelBytes(c.seed, c.w * c.h * (depth \div 8))
    IN  LE16(c.layer) \o LE16s(c.x) \o LE16s(c.y) \o <<255>> \o Zeros(7)
            \o LE16(c.kind)
            \o (CASE c.kind = 0 -> LE16(c.w) \o LE16(c.h) \o px
                  [] c.kind = 2 -> LE16(c.w) \o LE16(c.h) \o ZlibStored(px)
                  [] OTHER -> LE16(c.link))

EncColorProfile(c) == LE16(1) \o LE16(0) \o LE32(c.gamma) \o Zeros(c.pad)

EncPayload(depth, c) ==
    CASE c.t = "Layer" -> EncLayer(c)
      [] c.t = "Cel" -> EncCel(depth, c)
      [] c.t = "ColorProfile" -> EncColorProfile(c)
      [] OTHER -> <<>>

ChunkTag(c) ==
    CASE c.t = "Layer" -> 8196
      [] c.t = "Cel" -> 8197
      [] c.t = "ColorProfile" -> 8199
      [] c.t = "OldPallette" -> 4
      [] OTHER -> 39321

EncChunk(depth, c) ==
    LET payload == EncPayload(depth, c)
    IN  LE32(6 + Len(payload)) \o LE16(ChunkTag(c)) \o payload

RECURSIVE EncChunks(_, _)
EncChunks(depth, cs) ==
    IF cs = <<>> THEN <<>>
    ELSE EncChunk(depth, Head(cs)) \o EncChunks(depth, Tail(cs))

EncFrame(depth, f) ==
    LET body == EncChunks(depth, f.chunks)
    IN  LE32(FRAME_HEADER_SIZE + Len(body) + f.pad) \o LE16(Magic.frame)
            \o LE16(f.old) \o LE16(100) \o Zeros(2) \o LE32(f.new)
            \o body \o Zeros(f.pad)

RECURSIVE EncFrames(_, _)
EncFrames(depth, fs) ==
    IF fs = <<>> THEN <<>>
    ELSE EncFrame(depth, Head(fs)) \o EncFrames(depth, Tail(fs))

EncHeader(h, nframes, file_size) ==
    LE32(file_size) \o LE16(h.magic) \o LE16(nframes) \o LE16(h.width)
        \o LE16(h.height) \o LE16(h.depth) \o LE32(0) \o LE16(100) \o Zeros(8)
        \o LE16(0) \o <<1, 1>> \o Zeros(HEADER_SIZE - 32)

(* The bytes of the file d describes; d.keep cuts the file short.          *)
Encode(d) ==
    LET body == EncFrames(d.hdr.depth, d.frames)
        all == EncHeader(d.hdr, Len(d.frames), HEADER_SIZE + Len(body)) \o body
    IN  SubSeq(all, 1, IF d.keep < Len(all) THEN d.keep ELSE Len(all))

-----------------------------------------------------------------------------
(* Chunk descriptions.                                                     *)
ChunkD ==
    [t |-> "OldPallette", layer_type |-> 0, name |-> <<76>>, layer |-> 0,
     x |-> 0, y |-> 0, kind |-> 1, w |-> 0, h |-> 0, seed |-> 0, link |-> 0,
     gamma |-> 5, pad |-> 4]

LayerD == [ChunkD EXCEPT !.t = "Layer"]

LinkedD(i) == [ChunkD EXCEPT !.t = "Cel", !.layer = i]

PixelCelD(kind, i, x, y, w, h, seed) ==
    [ChunkD EXCEPT !.t = "Cel", !.kind = kind, !.layer = i, !.x = x, !.y = y,
                   !.w = w, !.h = h, !.seed = seed]

ProfileD == [ChunkD EXCEPT !.t = "ColorProfile"]

UnknownD == [ChunkD EXCEPT !.t = "Unknown"]

HdrD(depth, width, height) ==
    [magic |-> Magic.header, depth |-> depth, width |-> width, height |-> height]

FrameD(cs, mode, pad) ==
    [old |-> IF mode = "legacy" \/ cs = <<>> THEN Len(cs) ELSE 1,
     new |-> IF mode = "legacy" THEN 0 ELSE Len(cs),
     pad |-> pad,
     chunks |-> cs]

DocD(h, fs) == [hdr |-> h, frames |-> fs, keep |-> U16]

(* The chunk sequence s cut into n frames at the offsets c.                *)
SplitFrames(s, n, c, mode, pad) ==
    [i \in 1..n |->
        FrameD(SubSeq(s, (IF i = 1 THEN 0 ELSE c[i - 1]) + 1,
                         IF i = n THEN Len(s) ELSE c[i]),
               mode, pad)]

Cuts(n, L) ==
    {c \in [1..(n - 1) -> 0..L] : \A i \in 1..(n - 2) : c[i] <= c[i + 1]}

FMenu == {LayerD, LinkedD(0), LinkedD(1), ProfileD}

(* Files that exercise the framing: up to MaxChunks chunks spread over up  *)
(* to MaxFrames frames, counted by the legacy or the extended field, the   *)
(* frames padded or not.                                                   *)
IsFramingInput(d) ==
    \E s \in UNION {[1..L -> FMenu] : L \in 0..MaxChunks} :
      \E n \in (IF s = <<>> THEN 0 ELSE 1)..MaxFrames :
        \E c \in Cuts(n, Len(s)) :
          \E mode \in {"legacy", "extended"}, pad \in {0, 2} :
            d = DocD(HdrD(32, 2, 2), SplitFrames(s, n, c, mode, pad))

(* Files that exercise the renderer: each frame declares a layer and       *)
(* carries one compressed cel on it; the first frame's cel takes every     *)
(* placement and size.                                                     *)
RenderFrames(nf, x, y, w, h) ==
    [i \in 1..nf |->
        FrameD(<<LayerD,
                 IF i = 1 THEN PixelCelD(2, 0, x, y, w, h, 64)
                 ELSE PixelCelD(2, 0, 0, 0, 1, 1, 64 * i)>>,
               "legacy", 0)]

IsRenderInput(d) ==
    \E depth \in {32, 16, 8}, nf \in 1..MaxFrames,
       x \in 0..(CanvasW - 1), y \in 0..(CanvasH - 1),
       w \in 1..MaxCelSide, h \in 1..MaxCelSide :
         d = DocD(HdrD(depth, CanvasW, CanvasH), RenderFrames(nf, x, y, w, h))

OneFrame(cs) == <<FrameD(cs, "legacy", 0)>>

SpecialInputs ==
    { [DocD(HdrD(32, 2, 2), OneFrame(<<LayerD>>)) EXCEPT !.hdr.magic = 0],
      DocD(HdrD(24, 2, 2), OneFrame(<<LayerD>>)),
      [DocD(HdrD(32, 2, 2), OneFrame(<<LayerD>>)) EXCEPT !.keep = 10],
      [DocD(HdrD(32, 2, 2), OneFrame(<<LayerD>>)) EXCEPT !.keep = 20],
      [DocD(HdrD(32, 2, 2), OneFrame(<<LayerD>>)) EXCEPT !.keep = 100],
      DocD(HdrD(32, 2, 2), OneFrame(<<UnknownD>>)),
      DocD(HdrD(32, 2, 2), OneFrame(<<ChunkD, LayerD>>)),
      DocD(HdrD(32, 2, 2), OneFrame(<<LayerD, PixelCelD(0, 0, 0, 0, 1, 1, 16)>>)),
      DocD(HdrD(32, 10, 10), OneFrame(<<LayerD, PixelCelD(2, 0, 3, 1, 2, 2, 16)>>)) }

-----------------------------------------------------------------------------
(* The decoder's state. pc is the position in Ase::new / Frame::new /      *)
(* Ase::render: "start" before Header::new, "frames" at the head of the    *)
(* frame loop, "chunks" at the head of the chunk loop, "decoded" when      *)
(* Ase::new has returned, "rendered" when Ase::render has returned,        *)
(* "panic" when the thread has panicked (err holds the message). input is  *)
(* the description the file was built from; calls counts the calls of      *)
(* Chunk::new made for the current frame.                                  *)
InitIdle ==
    /\ pc = "start" /\ err = "none" /\ header = Nil /\ frames = <<>>
    /\ offset = 0 /\ frame = Nil /\ foffset = 0 /\ chunk_count = 0 /\ k = 0
    /\ chunk = Nil /\ calls = 0 /\ image_data = <<>>

InitReaders == bytes = <<>> /\ word = Nil /\ dword = Nil

InitCels == celin = Nil /\ rawcel = Nil /\ compcel = Nil /\ decoded_cel = Nil

Init ==
    /\ IsFramingInput(input) \/ IsRenderInput(input) \/ input \in SpecialInputs
    /\ raw = Encode(input)
    /\ InitIdle /\ InitReaders /\ InitCels

Panic(why) ==
    /\ pc' = "panic"
    /\ err' = why

(* Ase::new, lines 559-561: the header, then the frame loop from 128.      *)
DecodeHeader ==
    /\ pc = "start"
    /\ LET r == HeaderNew(raw)
       IN  IF ~r.ok
              THEN Panic(r.why) /\ UNCHANGED <<header, offset>>
           ELSE /\ header' = r
                /\ offset' = HEADER_SIZE
                /\ pc' = "frames"
                /\ err' = err
    /\ UNCHANGED <<raw, input, frames, frame, foffset, chunk_count, k, chunk,
                   calls, image_data, readerVars, celVars>>

(* Frame::new, lines 50-54.                                                *)
ChunkCountLegacy(f) == f.old_chunks

ChunkCount(f) == IF f.new_chunks = 0 THEN f.old_chunks ELSE f.new_chunks

(* Ase::new, line 563, into Frame::new, lines 38-54: the frame header at   *)
(* &raw[offset..].                                                         *)
BeginFrame ==
    /\ pc = "frames"
    /\ Len(frames) < header.frames
    /\ IF ~Avail(offset, Len(raw), FRAME_HEADER_SIZE)
          THEN Panic("index out of bounds")
               /\ UNCHANGED <<frame, foffset, chunk_count, k, calls, chunk>>
       ELSE LET f == [size |-> read_dword(raw, offset),
                      magic_number |-> read_word(raw, offset + 4),
                      old_chunks |-> read_word(raw, offset + 6),
                      frame_duration |-> read_word(raw, offset + 8),
                      new_chunks |-> read_dword(raw, offset + 12),
                      chunks |-> <<>>,
                      layers |-> <<>>]
            IN  /\ frame' = f
                /\ foffset' = FRAME_HEADER_SIZE
                /\ chunk_count' = ChunkCount(f)
                /\ k' = 0
                /\ calls' = 0
                /\ chunk' = Nil
                /\ pc' = "chunks"
                /\ err' = err
    /\ UNCHANGED <<raw, input, header, frames, offset, image_data,
                   readerVars, celVars>>

(* Frame::new, lines 59-63: where a decoded chunk goes. frame.layers is    *)
(* the list of the frame being assembled.                                  *)
RouteOk(f, c) == c.tag = "Cel" => layer_index(c.cel) < Len(f.layers)

Route(f, c) ==
    CASE c.tag = "Layer" -> [f EXCEPT !.layers = Append(@, c)]
      [] c.tag = "Cel" ->
            [f EXCEPT !.layers[layer_index(c.cel) + 1].cels = Append(@, c.cel)]
      [] OTHER -> [f EXCEPT !.chunks = Append(@, c)]

(* One iteration of the chunk loop of Frame::new, lines 56-64.             *)
ChunkStep ==
    /\ pc = "chunks"
    /\ k < chunk_count
    /\ calls' = calls + 1
    /\ LET r == ChunkNew(header, raw, offset + foffset, Len(raw))
       IN  IF ~r.ok
              THEN Panic(r.why) /\ chunk' = Nil /\ UNCHANGED <<frame, foffset, k>>
           ELSE /\ foffset' = foffset + r.size
                /\ chunk' = r.chunk
                /\ IF RouteOk(frame, r.chunk)
                      THEN /\ frame' = Route(frame, r.chunk)
                           /\ k' = k + 1
                           /\ UNCHANGED <<pc, err>>
                   ELSE Panic("index out of bounds: layers") /\ UNCHANGED <<frame, k>>
    /\ UNCHANGED <<raw, input, header, frames, offset, chunk_count, image_data,
                   readerVars, celVars>>

(* Frame::new returns; Ase::new, lines 564-565.                            *)
EndFrame ==
    /\ pc = "chunks"
    /\ k = chunk_count
    /\ offset' = offset + frame.size
    /\ frames' = Append(frames, frame)
    /\ frame' = Nil
    /\ chunk' = Nil
    /\ pc' = "frames"
    /\ UNCHANGED <<raw, input, err, header, foffset, chunk_count, k, calls,
                   image_data, readerVars, celVars>>

(* Ase::new returns the document, lines 568-571.                           *)
Finish ==
    /\ pc = "frames"
    /\ Len(frames) = header.frames
    /\ pc' = "decoded"
    /\ UNCHANGED <<raw, input, err, header, frames, offset, frame, foffset,
                   chunk_count, k, chunk, calls, image_data, readerVars, celVars>>

-----------------------------------------------------------------------------
(* `x as usize` for an i16. The cels of the modelled inputs have           *)
(* non-negative offsets, for which the cast keeps the value.               *)
AsUsize(v) == v

(* RawCel::map_pixel (lib.rs 306-311).                                     *)
map_pixel(c, idx, width) ==
    LET row == idx \div c.width
        col == idx % c.width
    IN  (row * width) + (col + AsUsize(c.base.x))

(* The cels of the document in the order Ase::render visits them (lines    *)
(* 589-591): frames, then each frame's layers, then each layer's cels.     *)
RECURSIVE Flatten(_)
Flatten(ss) == IF ss = <<>> THEN <<>> ELSE Head(ss) \o Flatten(Tail(ss))

LayerCels(fs, fi, li) ==
    [j \in 1..Len(fs[fi].layers[li].cels) |->
        [frame |-> fi, layer |-> li, cel |-> fs[fi].layers[li].cels[j]]]

FrameCels(fs, fi) == Flatten([li \in 1..Len(fs[fi].layers) |-> LayerCels(fs, fi, li)])

CelsOf(fs) == Flatten([fi \in 1..Len(fs) |-> FrameCels(fs, fi)])

(* The pixel loop of Ase::render (lines 594-609) from the i-th pixel of    *)
(* the raw cel c on: an RGBA pixel is stored at its mapped offset (an      *)
(* indexing past the buffer panics), a GrayScale or Indexed pixel is       *)
(* pushed at the end of the buffer.                                        *)
RECURSIVE RenderPixels(_, _, _, _, _)
RenderPixels(c, i, img, d, width) ==
    IF i > Len(c.pixels) THEN [ok |-> TRUE, img |-> img]
    ELSE IF d = "RGBA"
         THEN LET idx == map_pixel(c, i - 1, width) * DepthOffset(d)
              IN  IF idx + 4 > Len(img) THEN [ok |-> FALSE, img |-> img]
                  ELSE RenderPixels(c, i + 1,
                          [j \in 1..Len(img) |->
                              IF j > idx /\ j <= idx + 4
                                 THEN c.pixels[i][j - idx] ELSE img[j]],
                          d, width)
    ELSE RenderPixels(c, i + 1, img \o c.pixels[i], d, width)

RECURSIVE RenderCels(_, _, _, _, _)
RenderCels(cs, n, img, d, width) ==
    IF n > Len(cs) THEN [ok |-> TRUE, img |-> img]
    ELSE IF cs[n].cel.kind # "Raw" THEN RenderCels(cs, n + 1, img, d, width)
    ELSE LET r == RenderPixels(cs[n].cel, 1, img, d, width)
         IN  IF ~r.ok THEN r ELSE RenderCels(cs, n + 1, r.img, d, width)

(* Ase::render (lib.rs 581-619).                                           *)
RenderImage(hdr, fs) ==
    RenderCels(CelsOf(fs), 1,
               Zeros(hdr.width * hdr.height * DepthOffset(hdr.color_depth)),
               hdr.color_depth, hdr.width)

Render ==
    /\ pc = "decoded"
    /\ LET r == RenderImage(header, frames)
       IN  IF ~r.ok
              THEN Panic("index out of bounds") /\ UNCHANGED image_data
           ELSE /\ image_data' = r.img
                /\ pc' = "rendered"
                /\ err' = err
    /\ UNCHANGED <<raw, input, header, frames, offset, frame, foffset,
                   chunk_count, k, chunk, calls, readerVars, celVars>>

Next ==
    \/ DecodeHeader
    \/ BeginFrame
    \/ ChunkStep
    \/ EndFrame
    \/ Finish
    \/ Render

Spec == Init /\ [][Next]_vars

-----------------------------------------------------------------------------
(* The primitive readers applied to four bytes.                            *)
ByteSamples == {0, 1, 2, 127, 128, 255}

InitNoFile == raw = <<>> /\ input = Nil /\ InitIdle

ReadersInit ==
    /\ bytes \in [1..4 -> ByteSamples]
    /\ word = Nil /\ dword = Nil
    /\ InitNoFile /\ InitCels

ReadWord ==
    /\ word = Nil
    /\ word' = [value |-> read_word(bytes, 0), sum |-> WordSum(bytes, 0)]
    /\ UNCHANGED <<bytes, dword, decodeVars, celVars>>

ReadDword ==
    /\ dword = Nil
    /\ dword' = DwordSum(bytes, 0)
    /\ UNCHANGED <<bytes, word, decodeVars, celVars>>

ReadersNext == ReadWord \/ ReadDword

SpecReaders == ReadersInit /\ [][ReadersNext]_vars

-----------------------------------------------------------------------------
(* Cel::new applied to a Raw and to a Compressed cel payload that carry    *)
(* the same declared width and height and the same pixel bytes.            *)
DepthCode(d) ==
    CASE d = "RGBA" -> 32
      [] d = "GrayScale" -> 16
      [] d = "Indexed" -> 8

CelPayload(kind, c) ==
    EncCel(DepthCode(c.depth), PixelCelD(kind, 0, 0, 0, c.w, c.h, c.seed))

CelsInit ==
    /\ celin \in [depth : {"RGBA", "GrayScale", "Indexed"},
                  w : 1..MaxCelSide, h : 1..MaxCelSide,
                  seed : {1, 77, 200, 250}]
    /\ rawcel = Nil /\ compcel = Nil /\ decoded_cel = Nil
    /\ InitNoFile /\ InitReaders

DecodeRawCel ==
    /\ rawcel = Nil
    /\ LET p == CelPayload(0, celin)
       IN  rawcel' = CelNew([color_depth |-> celin.depth], p, 0, Len(p))
    /\ UNCHANGED <<celin, compcel, decoded_cel, decodeVars, readerVars>>

DecodeCompressedCel ==
    /\ compcel = Nil
    /\ LET p == CelPayload(2, celin)
       IN  compcel' = CelNew([color_depth |-> celin.depth], p, 0, Len(p))
    /\ UNCHANGED <<celin, rawcel, decoded_cel, decodeVars, readerVars>>

CelsNext == DecodeRawCel \/ DecodeCompressedCel

SpecCels == CelsInit /\ [][CelsNext]_vars

-----------------------------------------------------------------------------
(* Cel::new applied to one cel payload of every cel type. celin describes  *)
(* the payload: its cel-type word (kind), the word that follows the fixed  *)
(* part of a linked cel (link), and whether the cel-type word comes before *)
(* or after the 7 bytes between the base and the data at offset 16.        *)
MaxCelType == 3
MaxLink == 2

CelKindPayload(c) ==
    LET d == [PixelCelD(c.kind, 0, 0, 0, c.w, c.h, 16) EXCEPT !.link = c.link]
    IN  IF c.layout = "reserved_first"
           THEN EncCelReservedFirst(DepthCode(c.depth), d)
        ELSE EncCel(DepthCode(c.depth), d)

CelKindsInit ==
    /\ celin \in [layout : {"reserved_first", "type_first"},
                  kind : 0..MaxCelType, link : 0..MaxLink,
                  depth : {"RGBA", "GrayScale", "Indexed"},
                  w : 1..MaxCelSide, h : 1..MaxCelSide]
    /\ rawcel = Nil /\ compcel = Nil /\ decoded_cel = Nil
    /\ InitNoFile /\ InitReaders

DecodeCel ==
    /\ decoded_cel = Nil
    /\ LET p == CelKindPayload(celin)
       IN  decoded_cel' = CelNew([color_depth |-> celin.depth], p, 0, Len(p))
    /\ UNCHANGED <<celin, rawcel, compcel, decodeVars, readerVars>>

CelKindsNext == DecodeCel

SpecCelKinds == CelKindsInit /\ [][CelKindsNext]_vars

-----------------------------------------------------------------------------
(* What the input file declares, taken from its description.               *)
DeclaredChunkSize(c) == Len(EncChunk(input.hdr.depth, c))

RECURSIVE SumChunkSizes(_, _)
SumChunkSizes(cs, n) ==
    IF n = 0 THEN 0 ELSE SumChunkSizes(cs, n - 1) + DeclaredChunkSize(cs[n])

DeclaredFrameSize(f) ==
    FRAME_HEADER_SIZE + SumChunkSizes(f.chunks, Len(f.chunks)) + f.pad

RECURSIVE SumFrameSizes(_, _)
SumFrameSizes(fs, n) ==
    IF n = 0 THEN 0 ELSE SumFrameSizes(fs, n - 1) + DeclaredFrameSize(fs[n])

(* The description of the frame being assembled.                           *)
CurFrameD == input.frames[Len(frames) + 1]

EffectiveCount(f) == IF f.new # 0 THEN f.new ELSE f.old

(* Every layer declared so far in the document, in declaration order.      *)
GlobalLayers ==
    Flatten([i \in 1..Len(frames) |-> frames[i].layers])
        \o (IF frame = Nil THEN <<>> ELSE frame.layers)

(* The chunk loop has just decoded a Cel chunk and routed it (or panicked  *)
(* routing it).                                                            *)
JustDecodedCel == pc \in {"chunks", "panic"} /\ chunk # Nil /\ chunk.tag = "Cel"

-----------------------------------------------------------------------------
(* C1: while decoding, after k chunks of a frame the read offset of        *)
(* Frame::new is 16 plus the declared sizes of those k chunks, and each    *)
(* frame starts at 128 plus the declared sizes of the frames before it,    *)
(* whatever number of bytes the variant decoders looked at.                *)
OffsetsFollowDeclaredSizes ==
    /\ pc = "chunks" =>
          foffset = FRAME_HEADER_SIZE + SumChunkSizes(CurFrameD.chunks, k)
    /\ pc \in {"frames", "chunks"} =>
          offset = HEADER_SIZE + SumFrameSizes(input.frames, Len(frames))

(* A second frame, after a padded first frame, has had two chunks          *)
(* processed, one of them a ColorProfile whose decoder reads 8 of its 12   *)
(* payload bytes.                                                          *)
OffsetsWitness ==
    /\ pc = "chunks" /\ k >= 2 /\ Len(frames) >= 1
    /\ input.frames[1].pad > 0
    /\ frames[1].size > FRAME_HEADER_SIZE + SumChunkSizes(input.frames[1].chunks,
                                                          Len(input.frames[1].chunks))
    /\ \E j \in 1..k : CurFrameD.chunks[j].t = "ColorProfile"
    /\ foffset = FRAME_HEADER_SIZE + SumChunkSizes(CurFrameD.chunks, k)

(* C2: for every frame, Chunk::new is called exactly as many times as the  *)
(* effective chunk count: the extended count when it is non-zero, the      *)
(* legacy count otherwise.                                                 *)
ChunkDecoderCalledEffectiveCountTimes ==
    pc = "chunks" =>
        /\ calls <= EffectiveCount(CurFrameD)
        /\ k = chunk_count => calls = EffectiveCount(CurFrameD)

(* A frame whose extended count (2 or more) differs from its legacy count  *)
(* is complete after as many calls as the extended count.                  *)
EffectiveCountWitness ==
    /\ pc = "chunks" /\ k = chunk_count
    /\ frame.new_chunks >= 2 /\ frame.old_chunks # frame.new_chunks
    /\ calls = frame.new_chunks

(* C3: a Cel chunk whose layer index is below the number of layers         *)
(* declared so far in the whole document is accepted and becomes the last  *)
(* cel of that layer of the document-global layer list.                    *)
CelReachesGlobalLayer ==
    (JustDecodedCel /\ layer_index(chunk.cel) < Len(GlobalLayers)) =>
        /\ pc = "chunks"
        /\ LET cels == GlobalLayers[layer_index(chunk.cel) + 1].cels
           IN  cels # <<>> /\ cels[Len(cels)] = chunk.cel

(* C4: a Cel chunk whose layer index is not below the number of layers     *)
(* declared so far fails with the error InvalidLayerReference, never with  *)
(* an out-of-bounds indexing that aborts.                                  *)
BadLayerReferenceIsTypedError ==
    (JustDecodedCel /\ layer_index(chunk.cel) >= Len(GlobalLayers)) =>
        pc = "failed" /\ err = "InvalidLayerReference"

(* C5: a header whose magic is wrong, whose input is shorter than 128      *)
(* bytes or whose color-depth code is not legal makes decoding fail with   *)
(* MalformedHeader; no header is built from it and decoding never goes on  *)
(* to the frames. (A panic is counted here as having stopped.)             *)
MalformedHeader ==
    \/ Len(raw) < HEADER_SIZE
    \/ read_word(raw, 4) # Magic.header
    \/ ~ColorDepthOk(read_word(raw, 12))

MalformedHeaderIsRejected ==
    (pc # "start" /\ MalformedHeader) =>
        /\ header = Nil
        /\ pc \in {"failed", "panic"}
        /\ pc = "failed" => err = "MalformedHeader"

(* C6: a Compressed cel and a Raw cel that carry the same declared width   *)
(* and height and the same pixel bytes P decode to Raw cels with the same  *)
(* width, height and pixels: width x height pixels, equal to P.            *)
PixelsOfInput(c) ==
    LET bpp == DepthOffset(c.depth)
        P == PixelBytes(c.seed, c.w * c.h * bpp)
    IN  [i \in 1..(c.w * c.h) |-> SubSeq(P, (i - 1) * bpp + 1, i * bpp)]

CompressedEqualsRaw ==
    (rawcel # Nil /\ compcel # Nil) =>
        /\ rawcel.ok /\ compcel.ok
        /\ rawcel.cel.width = celin.w /\ rawcel.cel.height = celin.h
        /\ compcel.cel.width = celin.w /\ compcel.cel.height = celin.h
        /\ rawcel.cel.pixels = PixelsOfInput(celin)
        /\ compcel.cel.pixels = PixelsOfInput(celin)

(* C7: in a rendered one-frame RGBA document whose cels fit the canvas,    *)
(* local pixel i of a cel of width w at (x, y) is at row i div w + y,      *)
(* column i mod w + x, and every position no cel covers is zero.           *)
RawCels == SelectSeq(CelsOf(frames), LAMBDA e : e.cel.kind = "Raw")

Fits(c) ==
    /\ c.base.x >= 0 /\ c.base.y >= 0
    /\ c.base.x + c.width <= header.width
    /\ c.base.y + c.height <= header.height

Covers(c, row, col) ==
    /\ row >= c.base.y /\ row < c.base.y + c.height
    /\ col >= c.base.x /\ col < c.base.x + c.width

(* The pixel the canvas must hold at (row, col): that of the last cel that *)
(* covers the position, four zero bytes when none does.                    *)
ExpectedPixel(row, col) ==
    LET over == {n \in 1..Len(RawCels) : Covers(RawCels[n].cel, row, col)}
    IN  IF over = {} THEN Zeros(4)
        ELSE LET c == RawCels[CHOOSE n \in over : \A m \in over : m <= n].cel
             IN  c.pixels[(row - c.base.y) * c.width + (col - c.base.x) + 1]

CanvasPixel(row, col) ==
    SubSeq(image_data, (row * header.width + col) * 4 + 1,
                       (row * header.width + col) * 4 + 4)

CelsPlacedAtOffsets ==
    (/\ pc = "rendered" /\ header.color_depth = "RGBA" /\ Len(frames) = 1
     /\ \A n \in 1..Len(RawCels) : Fits(RawCels[n].cel)) =>
        \A row \in 0..(header.height - 1), col \in 0..(header.width - 1) :
            CanvasPixel(row, col) = ExpectedPixel(row, col)

(* C8: for every color depth the rendered buffer has exactly               *)
(* canvas_width x canvas_height x bytes-per-pixel bytes.                   *)
RenderedBufferHasCanvasSize ==
    pc = "rendered" =>
        Len(image_data) = header.width * header.height
                              * DepthOffset(header.color_depth)

(* C9: a render shows one frame: every pixel written into the buffer of    *)
(* an RGBA document that has frames belongs to a cel of one and the same   *)
(* frame.                                                                  *)
PixelBytesOfFrame(f) ==
    UNION { UNION { {RawCels[n].cel.pixels[i][j] : j \in 1..Len(RawCels[n].cel.pixels[i])} :
                    i \in 1..Len(RawCels[n].cel.pixels) } :
            n \in {m \in 1..Len(RawCels) : RawCels[m].frame = f} }

RenderShowsOneFrame ==
    (pc = "rendered" /\ Len(frames) >= 1 /\ header.color_depth = "RGBA") =>
        \E f \in 1..Len(frames) :
            \A j \in 1..Len(image_data) :
                image_data[j] # 0 => image_data[j] \in PixelBytesOfFrame(f)

(* C10: read_word and read_dword return the little-endian value of the     *)
(* leading bytes, b0 + 256 b1 and b0 + 256 b1 + 65536 b2 + 16777216 b3     *)
(* (the latter as its halves b0 + 256 b1 and b2 + 256 b3), and their       *)
(* additions never overflow.                                               *)
ReadersAreLittleEndian ==
    /\ word # Nil =>
          /\ word.value = bytes[1] + 256 * bytes[2]
          /\ word.sum < U16
    /\ dword # Nil =>
          /\ dword.lo = bytes[1] + 256 * bytes[2]
          /\ dword.hi = bytes[3] + 256 * bytes[4]
          /\ ~dword.ovf

(* Both readers have read four bytes of 255.                               *)
ReadersWitness ==
    /\ word # Nil /\ dword # Nil
    /\ bytes = <<255, 255, 255, 255>>
    /\ word.value = U16 - 1 /\ dword.hi = U16 - 1 /\ dword.lo = U16 - 1

(* C11: a cel payload laid out as base (layer index, x, y, opacity), 7     *)
(* reserved bytes, 2-byte cel-type selector, data decodes by the selector: *)
(* 0 and 2 give a Raw cel whenever a cel is produced (never a Compressed   *)
(* one), 1 gives a Linked cel holding the 2-byte frame position that       *)
(* follows the selector, any other value fails with UnsupportedCelType.    *)
CelVariantFollowsSelector ==
    (decoded_cel # Nil /\ celin.layout = "reserved_first") =>
        CASE celin.kind \in {0, 2} ->
                decoded_cel.ok => decoded_cel.cel.kind = "Raw"
          [] celin.kind = 1 ->
                /\ decoded_cel.ok
                /\ decoded_cel.cel.kind = "Linked"
                /\ decoded_cel.cel.frame_position = celin.link
          [] OTHER ->
                /\ ~decoded_cel.ok
                /\ decoded_cel.why = "UnsupportedCelType"

=============================================================================
